---- MODULE Spec2Model ----
(***************************************************************************)
(* MQTT client of middleware/network/MQTT: the base client                 *)
(* (umqttsimple.MQTTClient) and the reconnecting subclass                  *)
(* (umqttrobust.MQTTClient), modelled as one single-threaded call path     *)
(* over a byte-stream socket.  A top-level call runs from pc = "idle" to   *)
(* pc = "done", where `result` holds how it ended; the application then    *)
(* goes on (pc = "idle") and the frames of the call are gone.              *)
(* Spec is that call path.  LenSpec, WireSpec and SizeSpec run the length  *)
(* codec, the packet writers with their readers and the size check of      *)
(* publish on drawn inputs; TickSpec adds the keepalive timer of            *)
(* MQTT_Pub.py to the publishing main loop.                                 *)
(***************************************************************************)
EXTENDS Integers, Sequences, FiniteSets, TLC

\* ------------------------------------------------------------------ bounds
MaxIds == 2         \* packet identifiers issued in one run
MaxI == 2           \* consecutive failed connects inside one reconnect()
MaxAttempts == 2    \* largest `attempts` argument given to check_msg
MaxDigit == 3       \* base-128 digits 0..MaxDigit (and 127) of the sizes given to the length encoder
MaxStr == 130       \* longest topic written as bytes
LongStr == 16384    \* longest payload written as bytes (three length bytes)
MaxStream == 5      \* longest run of length bytes given to _recv_len
MaxOver == 3        \* publish sizes from SizeLimit - 4 to SizeLimit + MaxOver
MaxTicks == 61      \* timer ticks in one run

\* ------------------------------------------------------- program constants
PidModulus == 65536          \* struct format "!H": two bytes
PUBACK == 64                 \* 0x40
SUBACK == 144                \* 0x90
PINGRESP == 208              \* 0xD0
PUBLISH == 48                \* 0x30
CONNACK == 32                \* 0x20
SUBSCRIBE == 130             \* 0x82
SizeLimit == 2097152         \* assert sz < 2097152
KeepaliveTicks == 30         \* if timer_count >= 30
PubQos == 0                  \* mqtt_params['pubqos']

None == -1                   \* Python None for integer-valued slots

Hi(v) == (v \div 256) % 256
Lo(v) == v % 256

\* struct.pack("!H", v) on MicroPython: the low 16 bits, no range check
PackH(v) == v % PidModulus

\* op & 0xF0 and op & 6
HighNibble(b) == (b \div 16) * 16
\* variant: the QoS bits of the header byte ignored
QosBitsNone(b) == 0

QosBits(b) == ((b \div 2) % 4) * 2

Take(s, n) == SubSeq(s, 1, n)
Drop(s, n) == SubSeq(s, n + 1, Len(s))

\* ---------------------------------------------------------------- state
VARIABLES
    robust,     \* TRUE: the client is umqttrobust.MQTTClient, FALSE: umqttsimple
    sock,       \* self.sock: 0 is None, 1 a socket object
    link,       \* connection of self.sock: "none" (unconnected or closed), "up", "down"
    blocking,   \* blocking mode of self.sock
    rx,         \* bytes the server has sent on self.sock and the client has not read
    pid,        \* self.pid
    cb,         \* self.cb is not None
    orphaned,   \* a socket that was connected and never close()d is no longer self.sock
    op,         \* the top-level call in progress or last finished
    arg,        \* its qos argument (publish, subscribe) or attempts argument (check_msg)
    pc,         \* position of the call path
    lpid,       \* publish: local pid (line 417)
    rcvPid,     \* publish: local rcv_pid (line 432), None before the first PUBACK
    wmOp,       \* wait_msg: local op (line 517) / the value it returned, None once the caller has tested it
    wmPid,      \* wait_msg: local pid of an inbound PUBLISH (line 538), None once acknowledged
    retval,     \* the value the last top-level call returned (None when none)
    clean,      \* connect: the clean_session argument
    attempts,   \* check_msg: remaining attempts
    i,          \* reconnect: local i
    inRc,       \* a reconnect() frame is active
    rcRet,      \* the frame reconnect() returns to
    result,     \* how the last top-level call ended
    lastExc,    \* the exception most recently raised inside the current call
    sent,       \* history: the identifiers written in QoS>0 PUBLISH and SUBSCRIBE packets, in order
    pubHere,    \* history: the PUBLISH / SUBSCRIBE being waited for was written on self.sock
    delay,      \* history: seconds slept since the last connect attempt of this reconnect()
    rcTries,    \* history: connect attempts made by the active reconnect()
    retried,    \* history: a reconnect() made inside this call has returned
    needConn,   \* history: an operation of this call failed and no connect has succeeded since
    idOut,      \* history: this call wrote an identifier on a socket that self.sock has since replaced
    txn,        \* history: the current top-level call has written to a socket
    ckReads,    \* history: header reads attempted by the current check_msg call
    cbLog,      \* history: the <<topic, msg>> pairs the last wait_msg frame handed to self.cb
    ackLog,     \* history: the identifiers of the PUBACKs the last wait_msg frame wrote
    lenPc,      \* remaining-length codec: "off", or the step of an encode / decode run
    encSz,      \* publish: sz, the remaining length to encode (line 390)
    encPkt,     \* publish: the length bytes pkt[1..i] (lines 400-406)
    decN,       \* _recv_len: the value returned (line 182), None before
    wirePc,     \* wire images: "off", or the step of a write / read-back run
    wireIn,     \* the arguments of the call whose bytes are written
    wire,       \* the bytes the call wrote with self.sock.write, in order
    wireOut,    \* what the reader made of them
    pubLens,    \* publish: <<len(topic), len(msg)>> of a call whose size is checked (line 390)
    timer_count, \* MQTT_Pub.py / MQTT_Sub.py: the global timer_count
    ticks,      \* history: calls of timer_callback so far
    pings,      \* history: calls of client.ping() made by timer_callback
    pingMid     \* history: a PINGREQ was written between two writes of one PUBLISH packet

netVars == <<sock, link, blocking, rx, orphaned>>
ctlVars == <<pc, result, lastExc, inRc, rcRet, i, delay, rcTries, retried, needConn, attempts, clean>>
locVars == <<lpid, rcvPid, wmOp, wmPid, retval>>
histVars == <<sent, pubHere, idOut, txn, ckReads>>
logVars == <<cbLog, ackLog>>
clientVars == <<robust, pid, cb, op, arg, netVars, ctlVars, locVars, histVars, logVars>>
lenVars == <<lenPc, encSz, encPkt, decN>>
wireVars == <<wirePc, wireIn, wire, wireOut>>
tickVars == <<timer_count, ticks, pings, pingMid>>
extVars == <<lenVars, wireVars, pubLens, tickVars>>
vars == <<clientVars, extVars>>

\* ------------------------------------------------------- exception routing
ProtoErrors == {"MQTTException", "AssertionError", "Error"}

\* variant: reconnect() with a bare `except` around super().connect(False)
RcCatchesAll(e) == TRUE

\* umqttrobust reconnect(): `except OSError` around super().connect(False)
RcCatches(e) == e = "OSError"

\* variant: the robust client without its try blocks
WrapCatchesNone(e) == FALSE

\* umqttrobust publish / wait_msg / check_msg: `except OSError` around the base call
WrapCatches(e) == e = "OSError"

\* reconnect(): super().connect(False)
RcClean == FALSE

\* variant: a failure count kept on the object across calls of reconnect()
RcKeepI(old) == old

\* reconnect(): i = 0 on entry (old is the value the name held before)
RcInitI(old) == 0

\* reconnect(): i += 1
RcNextI(k) == k + 1

\* variant: a constant one second back-off
SleepOne(k) == 1

\* reconnect(): time.sleep(i)
SleepTime(k) == k

\* the frame of the robust client whose try block encloses the raising site
CatchFrame(site) ==
    IF site = "publish" THEN "publish"
    ELSE IF op = "check_msg" THEN "check_msg" ELSE "wait_msg"

\* A top-level call ends with value or exception r.
Finish(r) ==
    /\ pc' = "done"
    /\ result' = r
    /\ inRc' = FALSE
    /\ UNCHANGED <<rcRet, i, delay, retried, needConn, attempts, clean>>

Return(r) == Finish(r) /\ UNCHANGED <<lastExc, rcTries>>

Goto(p) ==
    /\ pc' = p
    /\ UNCHANGED <<result, lastExc, inRc, rcRet, i, delay, rcTries, retried, needConn, attempts, clean>>

\* Exception e is raised at `site` ("connect", "publish", "wait_msg", "other"):
\* it unwinds to the innermost try block that catches it, else to the caller.
Throw(e, site) ==
    /\ lastExc' = e
    /\ IF site = "connect" /\ inRc /\ RcCatches(e)
       THEN /\ pc' = "rc_sleep"
            /\ i' = RcNextI(i)
            /\ rcTries' = rcTries + 1
            /\ UNCHANGED <<result, inRc, rcRet, delay, retried, needConn, attempts, clean>>
       ELSE IF site \in {"publish", "wait_msg"} /\ robust /\ WrapCatches(e)
       THEN /\ pc' = "cn_open"
            /\ inRc' = TRUE
            /\ rcRet' = CatchFrame(site)
            /\ i' = RcInitI(i)
            /\ delay' = 0
            /\ rcTries' = 0
            /\ needConn' = TRUE
            /\ clean' = RcClean
            /\ UNCHANGED <<result, retried, attempts>>
       ELSE /\ Finish(e)
            /\ rcTries' = IF site = "connect" /\ inRc THEN rcTries + 1 ELSE rcTries

\* a wait_msg frame that hands nothing to self.cb and writes no PUBACK, or a
\* caller that has finished with what wait_msg returned
NoLog == cbLog' = <<>> /\ ackLog' = <<>>

\* sock.write on self.sock: None has no write (AttributeError); an unconnected,
\* closed or broken socket raises OSError.
WriteExc == IF sock = 0 THEN "Error" ELSE "OSError"
CanWrite == sock # 0 /\ link = "up"

\* ------------------------------------------------------------ construction
\* __init__: sock None, pid 0, cb None.  The second start is the same client
\* after PidModulus - 2 identifiers have been issued and disconnect() called
\* (self.sock is then a closed socket).
StartPids == {0, PidModulus - 2}

\* No call is in progress: no frame, no local, no per-call history.
NoCall ==
    /\ op = "none" /\ arg = 0 /\ pc = "idle"
    /\ lpid = None /\ rcvPid = None /\ wmOp = None /\ wmPid = None /\ retval = None
    /\ attempts = 0 /\ i = 0 /\ inRc = FALSE /\ rcRet = "top" /\ clean = TRUE
    /\ result = "none" /\ lastExc = "none"
    /\ pubHere = FALSE /\ idOut = FALSE /\ delay = 0 /\ rcTries = 0 /\ txn = FALSE /\ ckReads = 0
    /\ retried = FALSE /\ needConn = FALSE
    /\ cbLog = <<>> /\ ackLog = <<>>

\* The remaining-length codec is exercised on its own (LenSpec below).
LenOff == lenPc = "off" /\ encSz = 0 /\ encPkt = <<>> /\ decN = None

\* No packet image is being written or read back; publish is called with an
\* empty topic and msg unless a run draws their lengths.
WireOff == wirePc = "off" /\ wireIn = <<>> /\ wire = <<>> /\ wireOut = <<>>
SizeOff == pubLens = <<0, 0>>

\* MQTT_Pub.py line 52: timer_count = 0, and the timer not started
TimerOff == timer_count = 0 /\ ticks = 0 /\ pings = 0 /\ pingMid = FALSE

Init ==
    /\ robust \in BOOLEAN
    /\ pid \in StartPids
    /\ sock = (IF pid = 0 THEN 0 ELSE 1)
    /\ link = "none"
    /\ blocking = TRUE
    /\ rx = <<>>
    /\ orphaned = FALSE
    /\ cb = FALSE
    /\ sent = <<>>
    /\ NoCall
    /\ LenOff /\ WireOff /\ SizeOff /\ TimerOff

\* The call has returned or raised into the application, which goes on
\* (MQTT_Pub.py and MQTT_Sub.py catch what their calls raise).
AppContinue ==
    /\ pc = "done"
    /\ op' = "none" /\ arg' = 0 /\ pc' = "idle"
    /\ lpid' = None /\ rcvPid' = None /\ wmOp' = None /\ wmPid' = None /\ retval' = None
    /\ attempts' = 0 /\ i' = 0 /\ inRc' = FALSE /\ rcRet' = "top" /\ clean' = TRUE
    /\ result' = "none" /\ lastExc' = "none"
    /\ pubHere' = FALSE /\ idOut' = FALSE /\ delay' = 0 /\ rcTries' = 0 /\ txn' = FALSE /\ ckReads' = 0
    /\ retried' = FALSE /\ needConn' = FALSE
    /\ cbLog' = <<>> /\ ackLog' = <<>>
    /\ UNCHANGED <<robust, extVars, pid, cb, netVars, sent>>

\* A top-level call starts: its locals and the per-call history are fresh.
Call(name, q) ==
    /\ pc = "idle"
    /\ op' = name
    /\ arg' = q
    /\ UNCHANGED <<robust, extVars, logVars, pid, cb, netVars, locVars, histVars,
                   result, lastExc, retried, needConn>>

\* ... and continues at p outside any reconnect()
Enter(p) ==
    /\ pc' = p
    /\ UNCHANGED <<inRc, rcRet, i, delay, rcTries, attempts, clean>>

\* ------------------------------------------------------------- environment
\* The peer or the network ends the connection of self.sock.
\* Bytes still on the way are lost with it: all, all but the first, or none.
LinkDown ==
    /\ link = "up"
    /\ link' = "down"
    /\ \E k \in {0, 1, Len(rx)} : k <= Len(rx) /\ rx' = Take(rx, k)
    /\ UNCHANGED <<robust, extVars, logVars, pid, cb, op, arg, sock, blocking, orphaned,
                   ctlVars, locVars, histVars>>

\* CONNACK packets a server answers a CONNECT with: <<0x20, 0x02, flags, rc>>,
\* and one whose second byte is not 0x02.
ConnAcks ==
    {<<CONNACK, 2, sp, rc>> : sp \in {0, 1}, rc \in {0, 5}} \cup {<<CONNACK, 3, 0, 0>>}

ServerConnack ==
    /\ pc = "cn_ack" /\ link = "up" /\ rx = <<>>
    /\ \E p \in ConnAcks : rx' = p
    /\ UNCHANGED <<robust, extVars, logVars, pid, cb, op, arg, sock, link, blocking, orphaned,
                   ctlVars, locVars, histVars>>

\* ------------------------------------------------------ connect / reconnect
\* client.connect(clean_session)
CallConnect ==
    /\ Call("connect", 0)
    /\ \E c \in BOOLEAN : clean' = c
    /\ pc' = "cn_open"
    /\ UNCHANGED <<inRc, rcRet, i, delay, rcTries, attempts>>

\* client.reconnect() called by the application (umqttrobust only)
CallReconnect ==
    /\ robust
    /\ Call("reconnect", 0)
    /\ pc' = "cn_open"
    /\ inRc' = TRUE
    /\ rcRet' = "top"
    /\ clean' = RcClean
    /\ i' = RcInitI(i)
    /\ delay' = 0
    /\ rcTries' = 0
    /\ UNCHANGED <<attempts>>

\* connect, lines 244-248: a new socket object replaces self.sock and is connected
ConnectOpen ==
    /\ pc = "cn_open"
    /\ sock' = 1
    /\ orphaned' = (orphaned \/ link # "none")
    /\ link' = "up"
    /\ blocking' = TRUE
    /\ rx' = <<>>
    /\ pubHere' = FALSE
    /\ idOut' = (idOut \/ pubHere)
    /\ Goto("cn_send")
    /\ UNCHANGED <<robust, extVars, logVars, pid, cb, op, arg, locVars, sent, txn, ckReads>>

\* connect, lines 244-248: getaddrinfo or sock.connect raises OSError
ConnectOpenFail ==
    /\ pc = "cn_open"
    /\ inRc => i < MaxI
    /\ sock' = 1
    /\ orphaned' = (orphaned \/ link # "none")
    /\ link' = "none"
    /\ blocking' = TRUE
    /\ rx' = <<>>
    /\ pubHere' = FALSE
    /\ idOut' = (idOut \/ pubHere)
    /\ Throw("OSError", "connect")
    /\ UNCHANGED <<robust, extVars, logVars, pid, cb, op, arg, locVars, sent, txn, ckReads>>

\* connect, lines 258-326: the CONNECT packet is written
ConnectSend ==
    /\ pc = "cn_send"
    /\ IF CanWrite
       THEN /\ txn' = TRUE
            /\ Goto("cn_ack")
       ELSE /\ inRc => i < MaxI
            /\ Throw(WriteExc, "connect")
            /\ UNCHANGED txn
    /\ UNCHANGED <<robust, extVars, logVars, pid, cb, op, arg, netVars, locVars, sent, pubHere, idOut, ckReads>>

\* connect returns resp[2] & 1 to its caller; reconnect() returns it to the
\* frame that called reconnect(), which loops back to the base operation.
ConnectReturn(sp) ==
    /\ needConn' = FALSE
    /\ rcTries' = IF inRc THEN rcTries + 1 ELSE rcTries
    /\ IF inRc /\ rcRet # "top"
       THEN /\ inRc' = FALSE
            /\ pc' = CASE rcRet = "publish" -> "pub_start"
                       [] rcRet = "wait_msg" -> "wm_read"
                       [] rcRet = "check_msg" -> "ck_loop"
            /\ attempts' = IF rcRet = "check_msg" THEN attempts - 1 ELSE attempts
            /\ retried' = TRUE
            /\ UNCHANGED <<result, lastExc, rcRet, i, delay, clean, retval>>
       ELSE /\ pc' = "done"
            /\ result' = "ok"
            /\ retval' = sp
            /\ inRc' = FALSE
            /\ UNCHANGED <<lastExc, rcRet, i, delay, retried, clean, attempts>>

\* connect, lines 329-340: resp = self.sock.read(4)
ConnectAck ==
    /\ pc = "cn_ack" /\ Len(rx) >= 4
    /\ rx' = Drop(rx, 4)
    /\ IF ~(rx[1] = CONNACK /\ rx[2] = 2)
       THEN Throw("AssertionError", "connect") /\ UNCHANGED retval
       ELSE IF rx[4] # 0
       THEN Throw("MQTTException", "connect") /\ UNCHANGED retval
       ELSE ConnectReturn(rx[3] % 2)
    /\ UNCHANGED <<robust, extVars, logVars, pid, cb, op, arg, sock, link, blocking, orphaned,
                   lpid, rcvPid, wmOp, wmPid, histVars>>

\* connect, line 329 on a connection that ended before four bytes came: the
\* read raises OSError, or returns short and resp[..] raises IndexError
ConnectAckLost ==
    /\ pc = "cn_ack" /\ Len(rx) < 4 /\ link # "up"
    /\ rx' = <<>>
    /\ \E e \in {"OSError", "Error"} :
          /\ (e = "OSError" /\ inRc) => i < MaxI
          /\ Throw(e, "connect")
    /\ UNCHANGED <<robust, extVars, logVars, pid, cb, op, arg, sock, link, blocking, orphaned,
                   locVars, histVars>>

\* reconnect, line 137: time.sleep(i)
RcSleep ==
    /\ pc = "rc_sleep"
    /\ delay' = SleepTime(i)
    /\ pc' = "cn_open"
    /\ UNCHANGED <<robust, extVars, logVars, pid, cb, op, arg, netVars, locVars, histVars,
                   result, lastExc, inRc, rcRet, i, rcTries, retried, needConn, attempts, clean>>

\* ------------------------------------------------------------------ publish
\* variant: an identifier that is not advanced
SamePid(p) == p

\* self.pid += 1
NextPid(p) == p + 1

\* variant: any PUBACK ends the wait
PubAckAny(lp, rcv) == TRUE

\* publish, line 433: if pid == rcv_pid
PubAckMatches(lp, rcv) == lp = rcv

\* identifiers issued since construction or since the later start
IdsIssued == IF pid >= PidModulus - 2 THEN pid - (PidModulus - 2) ELSE pid

\* client.publish(topic, msg, retain, qos)
CallPublish ==
    /\ \E q \in 0..2 :
          /\ q > 0 => IdsIssued < MaxIds
          /\ Call("publish", q)
    /\ Enter("pub_start")

\* variant: the identifier left out of the size
PubSzNoId(tl, ml, qos) == 2 + tl + ml

\* publish, lines 390-394: sz for a topic of tl bytes and a msg of ml bytes
PubSz(tl, ml, qos) == 2 + tl + ml + (IF qos > 0 THEN 2 ELSE 0)

\* variant: a limit that lets SizeLimit itself through
TooBigAbove(sz) == sz > SizeLimit

\* publish, line 397: assert sz < 2097152 fails
TooBig(sz) == sz >= SizeLimit

\* publish, lines 384-412: the size check, then the fixed header, the
\* remaining length and the topic
PubHeader ==
    /\ pc = "pub_start"
    /\ IF TooBig(PubSz(pubLens[1], pubLens[2], arg))
       THEN /\ Throw("AssertionError", "publish")
            /\ UNCHANGED txn
       ELSE IF CanWrite
       THEN /\ txn' = TRUE
            /\ Goto(IF arg > 0 THEN "pub_pid" ELSE "pub_msg")
       ELSE /\ Throw(WriteExc, "publish")
            /\ UNCHANGED txn
    /\ UNCHANGED <<robust, extVars, logVars, pid, cb, op, arg, netVars, locVars, sent, pubHere, idOut, ckReads>>

\* publish, lines 415-419: the identifier is advanced, packed and written
PubPid ==
    /\ pc = "pub_pid" /\ IdsIssued < MaxIds
    /\ pid' = NextPid(pid)
    /\ lpid' = pid'
    /\ IF CanWrite
       THEN /\ txn' = TRUE
            /\ sent' = Append(sent, PackH(pid'))
            /\ pubHere' = TRUE
            /\ Goto("pub_msg")
       ELSE /\ Throw(WriteExc, "publish")
            /\ UNCHANGED <<txn, sent, pubHere>>
    /\ UNCHANGED <<robust, extVars, logVars, cb, op, arg, netVars, rcvPid, wmOp, wmPid, retval, idOut, ckReads>>

\* publish, lines 422-438: the payload is written; qos 1 enters the PUBACK
\* loop (op = self.wait_msg()), qos 2 ends in `assert 0`, qos 0 returns
PubMsg ==
    /\ pc = "pub_msg"
    /\ IF CanWrite
       THEN /\ txn' = TRUE
            /\ CASE arg = 1 -> Goto("wm_read")
                 [] arg = 2 -> Throw("AssertionError", "publish")
                 [] OTHER -> Return("ok")
       ELSE /\ Throw(WriteExc, "publish")
            /\ UNCHANGED txn
    /\ UNCHANGED <<robust, extVars, logVars, pid, cb, op, arg, netVars, locVars, sent, pubHere, idOut, ckReads>>

\* publish, lines 428-434, wait_msg returned something else than 0x40
PubLoop ==
    /\ pc = "pub_chk" /\ wmOp # PUBACK
    /\ Goto("wm_read")
    /\ wmOp' = None
    /\ NoLog
    /\ UNCHANGED <<robust, extVars, pid, cb, op, arg, netVars, lpid, rcvPid, wmPid, retval, histVars>>

\* bytes publish reads after a 0x40: sz, and two more once sz == b"\x02" held
PubAckNeed == IF rx # <<>> /\ rx[1] # 2 THEN 1 ELSE 3

\* publish, lines 428-434: the rest of a PUBACK is read and its identifier
\* compared with the local pid
PubAck ==
    /\ pc = "pub_chk" /\ wmOp = PUBACK /\ Len(rx) >= PubAckNeed
    /\ rx' = IF rx[1] = 2 THEN Drop(rx, 3) ELSE Drop(rx, 1)
    /\ IF rx[1] # 2
       THEN Throw("AssertionError", "publish") /\ UNCHANGED rcvPid
       ELSE /\ rcvPid' = rx[2] * 256 + rx[3]
            /\ IF PubAckMatches(lpid, rx[2] * 256 + rx[3])
               THEN Return("ok")
               ELSE Goto("wm_read")
    /\ wmOp' = None
    /\ NoLog
    /\ UNCHANGED <<robust, extVars, pid, cb, op, arg, sock, link, blocking, orphaned,
                   lpid, wmPid, retval, histVars>>

\* A read inside a packet body that cannot be served: on a broken connection it
\* raises OSError or returns short, on a non-blocking socket it returns None;
\* the code indexes or asserts on what it got.
ShortReadExcs ==
    IF link # "up" THEN {"OSError", "AssertionError"} ELSE {"AssertionError"}
ShortRead(n) == Len(rx) < n /\ (link # "up" \/ ~blocking)

PubAckShort ==
    /\ pc = "pub_chk" /\ wmOp = PUBACK /\ ShortRead(PubAckNeed)
    /\ rx' = <<>>
    /\ \E e \in ShortReadExcs : Throw(e, "publish")
    /\ wmOp' = None
    /\ NoLog
    /\ UNCHANGED <<robust, extVars, pid, cb, op, arg, sock, link, blocking, orphaned,
                   lpid, rcvPid, wmPid, retval, histVars>>

\* ----------------------------------------------------------------- wait_msg
\* _recv_len over the bytes s from position k on: <<n, bytes used>>, or
\* <<None, 0>> when s ends before a byte without the top bit
\* variant: the continuation bit taken for part of the value
Low8(b) == b

\* _recv_len, line 178: b & 0x7F
Low7(b) == b % 128

\* (n starts at 0 and the shift sh at 0; n |= d << sh adds d * 2^sh, the
\* bits being apart)
RECURSIVE RecvLen(_, _, _, _)
RecvLen(s, k, n, sh) ==
    IF k > Len(s) THEN <<None, 0>>
    ELSE LET b == s[k]
             m == IF Low7(b) = 0 THEN n ELSE n + Low7(b) * 2^sh
         IN  IF b < 128 THEN <<m, k>> ELSE RecvLen(s, k + 1, m, sh + 7)

\* wait_msg, lines 523-542 on the bytes after the header byte h: the number of
\* bytes the PUBLISH takes from the stream, the identifier, topic and msg
\* read, or None when the stream ends inside it
PublishBody(h, s) ==
    LET rl == RecvLen(s, 1, 0, 0)
        at == rl[2]
    IN  IF rl[1] = None \/ Len(s) < at + 2
        THEN [used |-> None, id |-> None, topic |-> <<>>, msg |-> <<>>]
        ELSE LET tl == s[at + 1] * 256 + s[at + 2]
                 hasId == QosBits(h) # 0
                 idAt == at + 2 + tl
                 sz == rl[1] - (tl + 2) - (IF hasId THEN 2 ELSE 0)
                 total == idAt + (IF hasId THEN 2 ELSE 0) + (IF sz > 0 THEN sz ELSE 0)
             IN  IF Len(s) < total
                 THEN [used |-> None, id |-> None, topic |-> <<>>, msg |-> <<>>]
                 ELSE [used |-> total,
                       id |-> IF hasId THEN s[idAt + 1] * 256 + s[idAt + 2] ELSE None,
                       topic |-> SubSeq(s, at + 3, at + 2 + tl),
                       msg |-> SubSeq(s, total - (IF sz > 0 THEN sz ELSE 0) + 1, total)]

\* variant: the zero-length read taken for a malformed packet
EofAssert == "AssertionError"

\* wait_msg, line 508: raise OSError(-1)
EofExc == "OSError"

\* wait_msg returns v to the frame that called it
WmReturn(v) ==
    /\ wmOp' = v
    /\ CASE op = "publish" -> Goto("pub_chk") /\ UNCHANGED retval
         [] op = "subscribe" -> Goto("sub_chk") /\ UNCHANGED retval
         [] OTHER -> Return("ok") /\ retval' = v

\* client.wait_msg()
CallWaitMsg ==
    /\ Call("wait_msg", 0)
    /\ Enter("wm_read")

\* wait_msg, lines 500-504: nothing to read on a non-blocking socket
WmReadNone ==
    /\ pc = "wm_read" /\ sock # 0 /\ rx = <<>> /\ link = "up" /\ ~blocking
    /\ WmReturn(None)
    /\ ckReads' = IF op = "check_msg" THEN ckReads + 1 ELSE ckReads
    /\ NoLog
    /\ UNCHANGED <<robust, extVars, pid, cb, op, arg, netVars, lpid, rcvPid, wmPid, sent, pubHere, idOut, txn>>

\* wait_msg, lines 500-508: the connection has ended (b"" or a socket error),
\* or self.sock is None
WmReadLost ==
    /\ pc = "wm_read" /\ (sock = 0 \/ (rx = <<>> /\ link # "up"))
    /\ Throw(IF sock = 0 THEN "Error" ELSE EofExc, "wait_msg")
    /\ ckReads' = IF op = "check_msg" THEN ckReads + 1 ELSE ckReads
    /\ NoLog
    /\ UNCHANGED <<robust, extVars, pid, cb, op, arg, netVars, locVars, sent, pubHere, idOut, txn>>

\* wait_msg, lines 511-514: PINGRESP and its length byte
WmReadPingresp ==
    /\ pc = "wm_read" /\ sock # 0 /\ Len(rx) >= 2 /\ rx[1] = PINGRESP
    /\ rx' = Drop(rx, 2)
    /\ IF rx[2] = 0
       THEN WmReturn(None)
       ELSE Throw("AssertionError", "wait_msg") /\ UNCHANGED <<wmOp, retval>>
    /\ ckReads' = IF op = "check_msg" THEN ckReads + 1 ELSE ckReads
    /\ NoLog
    /\ UNCHANGED <<robust, extVars, pid, cb, op, arg, sock, link, blocking, orphaned,
                   lpid, rcvPid, wmPid, sent, pubHere, idOut, txn>>

\* wait_msg, lines 517-520: any other packet type is returned, its body unread
WmReadOther ==
    /\ pc = "wm_read" /\ sock # 0 /\ rx # <<>>
    /\ rx[1] # PINGRESP /\ HighNibble(rx[1]) # PUBLISH
    /\ rx' = Drop(rx, 1)
    /\ WmReturn(rx[1])
    /\ ckReads' = IF op = "check_msg" THEN ckReads + 1 ELSE ckReads
    /\ NoLog
    /\ UNCHANGED <<robust, extVars, pid, cb, op, arg, sock, link, blocking, orphaned,
                   lpid, rcvPid, wmPid, sent, pubHere, idOut, txn>>

\* wait_msg, lines 517-545: a PUBLISH is read whole and handed to self.cb
WmReadPublish ==
    /\ pc = "wm_read" /\ sock # 0 /\ rx # <<>> /\ HighNibble(rx[1]) = PUBLISH
    /\ LET body == PublishBody(rx[1], Drop(rx, 1))
       IN  /\ body.used # None
           /\ rx' = Drop(rx, 1 + body.used)
           /\ wmOp' = rx[1]
           /\ wmPid' = body.id
           /\ ackLog' = <<>>
           /\ IF cb
              THEN cbLog' = <<<<body.topic, body.msg>>>> /\ Goto("wm_ack")
              ELSE cbLog' = <<>> /\ Throw("Error", "wait_msg")
    /\ ckReads' = IF op = "check_msg" THEN ckReads + 1 ELSE ckReads
    /\ UNCHANGED <<robust, extVars, pid, cb, op, arg, sock, link, blocking, orphaned,
                   lpid, rcvPid, retval, sent, pubHere, idOut, txn>>

\* wait_msg, lines 511-542: the stream ends, or has nothing more, inside a packet
WmReadShort ==
    /\ pc = "wm_read" /\ sock # 0 /\ rx # <<>>
    /\ \/ rx[1] = PINGRESP /\ ShortRead(2)
       \/ /\ HighNibble(rx[1]) = PUBLISH
          /\ PublishBody(rx[1], Drop(rx, 1)).used = None
          /\ (link # "up" \/ ~blocking)
    /\ rx' = <<>>
    /\ \E e \in ShortReadExcs : Throw(IF e = "AssertionError" THEN "Error" ELSE e, "wait_msg")
    /\ ckReads' = IF op = "check_msg" THEN ckReads + 1 ELSE ckReads
    /\ NoLog
    /\ UNCHANGED <<robust, extVars, pid, cb, op, arg, sock, link, blocking, orphaned,
                   locVars, sent, pubHere, idOut, txn>>

\* wait_msg, lines 548-556: PUBACK for a QoS-1 PUBLISH after the callback
WmAck ==
    /\ pc = "wm_ack"
    /\ CASE QosBits(wmOp) = 2 ->
              IF CanWrite
              THEN txn' = TRUE /\ ackLog' = Append(ackLog, PackH(wmPid)) /\ WmReturn(wmOp)
              ELSE Throw(WriteExc, "wait_msg") /\ UNCHANGED <<txn, wmOp, retval, ackLog>>
         [] QosBits(wmOp) = 4 ->
              Throw("AssertionError", "wait_msg") /\ UNCHANGED <<txn, wmOp, retval, ackLog>>
         [] OTHER -> WmReturn(wmOp) /\ UNCHANGED <<txn, ackLog>>
    /\ wmPid' = None
    /\ UNCHANGED cbLog
    /\ UNCHANGED <<robust, extVars, pid, cb, op, arg, netVars, lpid, rcvPid, sent, pubHere, idOut, ckReads>>

\* ---------------------------------------------------------------- subscribe
\* variant: subscribe without its assert
HasCallbackAlways == TRUE

\* subscribe, line 457: assert self.cb is not None
HasCallback == cb

\* client.subscribe(topic, qos)
CallSubscribe ==
    /\ IdsIssued < MaxIds
    /\ \E q \in 0..2 : Call("subscribe", q)
    /\ Enter("sub_start")

\* subscribe, lines 457-471: needs a callback; advances the identifier and
\* writes the SUBSCRIBE packet, then loops on self.wait_msg()
SubSend ==
    /\ pc = "sub_start"
    /\ IF ~HasCallback
       THEN /\ Throw("AssertionError", "other")
            /\ UNCHANGED <<pid, lpid, txn, sent, pubHere>>
       ELSE /\ pid' = NextPid(pid)
            /\ lpid' = PackH(pid')
            /\ IF CanWrite
               THEN /\ txn' = TRUE
                    /\ sent' = Append(sent, PackH(pid'))
                    /\ pubHere' = TRUE
                    /\ Goto("wm_read")
               ELSE /\ Throw(WriteExc, "other")
                    /\ UNCHANGED <<txn, sent, pubHere>>
    /\ UNCHANGED <<robust, extVars, logVars, cb, op, arg, netVars, rcvPid, wmOp, wmPid, retval, idOut, ckReads>>

\* subscribe, lines 475-477: wait_msg returned something else than 0x90
SubLoop ==
    /\ pc = "sub_chk" /\ wmOp # SUBACK
    /\ Goto("wm_read")
    /\ wmOp' = None
    /\ NoLog
    /\ UNCHANGED <<robust, extVars, pid, cb, op, arg, netVars, lpid, rcvPid, wmPid, retval, histVars>>

\* subscribe, lines 478-482: resp = self.sock.read(4)
SubAck ==
    /\ pc = "sub_chk" /\ wmOp = SUBACK /\ Len(rx) >= 4
    /\ rx' = Drop(rx, 4)
    /\ IF ~(rx[2] = Hi(lpid) /\ rx[3] = Lo(lpid))
       THEN Throw("AssertionError", "other")
       ELSE IF rx[4] = 128
       THEN Throw("MQTTException", "other")
       ELSE Return("ok")
    /\ wmOp' = None
    /\ NoLog
    /\ UNCHANGED <<robust, extVars, pid, cb, op, arg, sock, link, blocking, orphaned,
                   lpid, rcvPid, wmPid, retval, histVars>>

SubAckShort ==
    /\ pc = "sub_chk" /\ wmOp = SUBACK /\ ShortRead(4)
    /\ rx' = <<>>
    /\ \E e \in ShortReadExcs : Throw(IF e = "AssertionError" THEN "Error" ELSE e, "other")
    /\ wmOp' = None
    /\ NoLog
    /\ UNCHANGED <<robust, extVars, pid, cb, op, arg, sock, link, blocking, orphaned,
                   lpid, rcvPid, wmPid, retval, histVars>>

\* ---------------------------------------------------------------- check_msg
\* client.check_msg(attempts); the base class takes no argument and calls
\* self.wait_msg()
CallCheckMsg ==
    /\ IF robust
       THEN /\ \E a \in 1..MaxAttempts : Call("check_msg", a) /\ attempts' = a
            /\ pc' = "ck_loop"
       ELSE /\ Call("check_msg", 0)
            /\ pc' = "wm_read"
            /\ UNCHANGED attempts
    /\ UNCHANGED <<inRc, rcRet, i, delay, rcTries, clean>>

\* umqttrobust check_msg, lines 200-207: while attempts: setblocking(False)
CkLoop ==
    /\ pc = "ck_loop"
    /\ IF attempts = 0
       THEN Return("ok") /\ retval' = None /\ UNCHANGED blocking
       ELSE IF sock = 0
       THEN Throw("Error", "other") /\ UNCHANGED <<retval, blocking>>
       ELSE Goto("wm_read") /\ blocking' = FALSE /\ UNCHANGED retval
    /\ UNCHANGED <<robust, extVars, logVars, pid, cb, op, arg, sock, link, rx, orphaned,
                   lpid, rcvPid, wmOp, wmPid, histVars>>

\* ------------------------------------------- ping, disconnect, set_callback
\* client.ping()
CallPing ==
    /\ Call("ping", 0)
    /\ Enter("ping_w")

\* ping, line 363: PINGREQ is written, nothing is read
PingWrite ==
    /\ pc = "ping_w"
    /\ IF CanWrite
       THEN txn' = TRUE /\ Return("ok")
       ELSE Throw(WriteExc, "other") /\ UNCHANGED txn
    /\ UNCHANGED <<robust, extVars, logVars, pid, cb, op, arg, netVars, locVars, sent, pubHere, idOut, ckReads>>

\* client.disconnect()
CallDisconnect ==
    /\ Call("disconnect", 0)
    /\ Enter("dc_w")

\* disconnect, lines 351-353: DISCONNECT is written, then the socket closed;
\* a write that raises leaves the close undone
DiscWrite ==
    /\ pc = "dc_w"
    /\ IF CanWrite
       THEN /\ txn' = TRUE
            /\ link' = "none"
            /\ rx' = <<>>
            /\ Return("ok")
       ELSE /\ Throw(WriteExc, "other")
            /\ UNCHANGED <<txn, link, rx>>
    /\ UNCHANGED <<robust, extVars, logVars, pid, cb, op, arg, sock, blocking, orphaned, locVars,
                   sent, pubHere, idOut, ckReads>>

\* client.set_callback(f)
SetCallback ==
    /\ pc = "idle" /\ ~cb
    /\ cb' = TRUE
    /\ UNCHANGED <<robust, extVars, logVars, pid, op, arg, netVars, ctlVars, locVars, histVars>>

\* ------------------------------------------------------------------- server
\* Packets the server sends, one at a time, while the client is about to read
\* a header byte: PUBACK and SUBACK for
\* the identifier last issued or the one before it, PINGRESP, and a PUBLISH
\* of topic InTopic and payload InMsg with QoS 0 or QoS 1 (identifier InPid).
InTopic == <<116>>
InMsg == <<109>>
InPid == 7

AckIds == {PackH(pid), PackH(pid + PidModulus - 1)}

PubAckPkt(id) == <<PUBACK, 2, Hi(id), Lo(id)>>
SubAckPkt(id, granted) == <<SUBACK, 3, Hi(id), Lo(id), granted>>
PublishPkt(q) ==
    IF q = 0
    THEN <<PUBLISH, 2 + Len(InTopic) + Len(InMsg), 0, Len(InTopic)>> \o InTopic \o InMsg
    ELSE <<PUBLISH + 2 * q, 4 + Len(InTopic) + Len(InMsg), 0, Len(InTopic)>>
             \o InTopic \o <<Hi(InPid), Lo(InPid)>> \o InMsg

ServerPackets ==
    {PubAckPkt(id) : id \in AckIds}
    \cup {SubAckPkt(id, g) : id \in AckIds, g \in {0, 128}}
    \cup {<<PINGRESP, 0>>}
    \cup {PublishPkt(q) : q \in {0, 1}}

ServerSend ==
    /\ link = "up" /\ pc = "wm_read"
    /\ rx = <<>>
    /\ \E p \in ServerPackets : rx' = rx \o p
    /\ UNCHANGED <<robust, extVars, logVars, pid, cb, op, arg, sock, link, blocking, orphaned,
                   ctlVars, locVars, histVars>>

\* ---------------------------------------------------- remaining-length codec
\* publish, lines 400-406: the length bytes written after the header byte
RECURSIVE EncLen(_)
EncLen(sz) ==
    IF sz > 127 THEN <<(sz % 128) + 128>> \o EncLen(sz \div 128) ELSE <<sz>>

\* sizes below 2097152 (line 397), by their three base-128 digits
LenDigits == (0..MaxDigit) \cup {127}
LenInputs == {a + 128 * b + 128 * 128 * c : a, b, c \in LenDigits}

\* a client just constructed, about to encode a size
LenInit ==
    /\ robust = FALSE /\ pid = 0 /\ sock = 0 /\ link = "none" /\ blocking = TRUE
    /\ rx = <<>> /\ orphaned = FALSE /\ cb = FALSE /\ sent = <<>>
    /\ NoCall
    /\ lenPc = "enc" /\ encSz \in LenInputs /\ encPkt = <<>> /\ decN = None
    /\ WireOff /\ SizeOff /\ TimerOff

\* publish, lines 400-409
EncodeLen ==
    /\ lenPc = "enc"
    /\ encPkt' = EncLen(encSz)
    /\ lenPc' = "dec"
    /\ UNCHANGED <<clientVars, wireVars, pubLens, tickVars, encSz, decN>>

\* _recv_len, lines 169-184, reading the bytes publish wrote
DecodeLen ==
    /\ lenPc = "dec"
    /\ decN' = RecvLen(encPkt, 1, 0, 0)[1]
    /\ lenPc' = "end"
    /\ UNCHANGED <<clientVars, wireVars, pubLens, tickVars, encSz, encPkt>>

LenNext == EncodeLen \/ DecodeLen

LenSpec == LenInit /\ [][LenNext]_vars

\* ------------------------------------------------------------ packet images
\* struct.pack_into("!BH", ...): the one-byte field
PackB(v) == v % 256

\* _send_str, lines 153-158: the length packed with "!H", then the bytes
SendStr(str) == <<Hi(PackH(Len(str))), Lo(PackH(Len(str)))>> \o str

\* publish, line 387: pkt[0] |= qos << 1 | retain
PubFlags(retain, qos) == PUBLISH + qos * 2 + (IF retain THEN 1 ELSE 0)

\* publish, lines 384-422: the bytes written for a call that carries
\* identifier id when qos > 0
PublishWire(topic, msg, retain, qos, id) ==
    <<PubFlags(retain, qos)>> \o EncLen(PubSz(Len(topic), Len(msg), qos))
        \o SendStr(topic)
        \o (IF qos > 0 THEN <<Hi(PackH(id)), Lo(PackH(id))>> ELSE <<>>)
        \o msg

\* subscribe, lines 460-471: the bytes written
SubscribeWire(topic, qos, id) ==
    <<SUBSCRIBE, PackB(2 + 2 + Len(topic) + 1), Hi(PackH(id)), Lo(PackH(id))>>
        \o SendStr(topic) \o <<qos>>

\* a string of n bytes starting with byte b
Bytes(n, b) == [k \in 1..n |-> (b + 7 * (k - 1)) % 256]

StrLens == {0, 1, 122, 123, MaxStr}
WireTopics == {Bytes(n, 116) : n \in StrLens}
WireMsgs == {Bytes(n, 109) : n \in StrLens \cup {LongStr}}

\* self.pid before the call: the identifiers written are 1, 255, 256 and 65535
WirePids == {0, 254, 255, PidModulus - 2}

WireCalls ==
    {[op |-> "publish", topic |-> t, msg |-> m, retain |-> r, qos |-> q] :
        t \in WireTopics, m \in WireMsgs, r \in BOOLEAN, q \in {0, 1}}
    \cup {[op |-> "subscribe", topic |-> t, msg |-> <<>>, retain |-> FALSE, qos |-> q] :
        t \in WireTopics, q \in {0, 1}}

\* runs of up to n length bytes, with the continuation bit (128, 255) or
\* without (1, 127); the bytes after the fourth carry no value bits (0, 128),
\* which keeps n below 2^31
RECURSIVE LenRuns(_)
LenRuns(n) ==
    IF n = 0 THEN {<<>>}
    ELSE LenRuns(n - 1) \cup
         {Append(r, b) : r \in {q \in LenRuns(n - 1) : Len(q) = n - 1},
                         b \in IF n > 4 THEN {0, 128} ELSE {1, 127, 128, 255}}

\* A connected client about to be called, or a PUBLISH header followed by a
\* run of length bytes waiting to be read.
WireInit ==
    /\ robust = FALSE /\ sock = 1 /\ link = "up" /\ blocking = TRUE
    /\ rx = <<>> /\ orphaned = FALSE /\ cb = TRUE /\ sent = <<>>
    /\ NoCall
    /\ LenOff /\ SizeOff /\ TimerOff
    /\ wireOut = <<>>
    /\ \/ /\ wirePc = "call" /\ wireIn \in WireCalls /\ wire = <<>>
          /\ pid \in WirePids
       \/ /\ wirePc = "sent" /\ wireIn = [op |-> "recv_len"]
          /\ wire \in {<<PUBLISH>> \o r : r \in LenRuns(MaxStream) \ {<<>>}}
          /\ pid = 0

\* publish, lines 384-422, on a connection that takes every byte
WirePublish ==
    /\ wirePc = "call" /\ wireIn.op = "publish"
    /\ pid' = IF wireIn.qos > 0 THEN NextPid(pid) ELSE pid
    /\ wire' = PublishWire(wireIn.topic, wireIn.msg, wireIn.retain, wireIn.qos, pid')
    /\ wirePc' = "sent"
    /\ UNCHANGED <<robust, cb, op, arg, netVars, ctlVars, locVars, histVars, logVars,
                   lenVars, pubLens, tickVars, wireIn, wireOut>>

\* subscribe, lines 457-471
WireSubscribe ==
    /\ wirePc = "call" /\ wireIn.op = "subscribe"
    /\ pid' = NextPid(pid)
    /\ wire' = SubscribeWire(wireIn.topic, wireIn.qos, pid')
    /\ wirePc' = "sent"
    /\ UNCHANGED <<robust, cb, op, arg, netVars, ctlVars, locVars, histVars, logVars,
                   lenVars, pubLens, tickVars, wireIn, wireOut>>

\* wait_msg, lines 500-542, reading the bytes of a PUBLISH
WireWaitMsg ==
    /\ wirePc = "sent" /\ wireIn.op = "publish"
    /\ wireOut' = [op |-> wire[1], body |-> PublishBody(wire[1], Drop(wire, 1))]
    /\ wirePc' = "end"
    /\ UNCHANGED <<clientVars, lenVars, pubLens, tickVars, wireIn, wire>>

\* _recv_len, lines 169-184, reading what follows a header byte: the value
\* and the number of bytes read (None, 0 when the bytes end inside the field)
WireRecvLen ==
    /\ wirePc = "sent" /\ wireIn.op \in {"subscribe", "recv_len"}
    /\ LET rl == RecvLen(wire, 2, 0, 0)
       IN  wireOut' = [n |-> rl[1], read |-> IF rl[1] = None THEN 0 ELSE rl[2] - 1]
    /\ wirePc' = "end"
    /\ UNCHANGED <<clientVars, lenVars, pubLens, tickVars, wireIn, wire>>

WireNext == WirePublish \/ WireSubscribe \/ WireWaitMsg \/ WireRecvLen

WireSpec == WireInit /\ [][WireNext]_vars

\* ----------------------------------------------------------- publish sizes
\* len(topic) and len(msg) of calls whose sz is near the limit, for qos 0
\* and for qos > 0, and of a short call
SizeLens ==
    {<<tl, SizeLimit - 4 - tl + d>> : tl \in {0, 1, PidModulus - 1}, d \in (-1)..MaxOver}
    \cup {<<1, 1>>}

\* A connected client, and the strings the application will publish.
SizeInit ==
    /\ robust \in BOOLEAN /\ pid = 0 /\ sock = 1 /\ link = "up" /\ blocking = TRUE
    /\ rx = <<>> /\ orphaned = FALSE /\ cb = FALSE /\ sent = <<>>
    /\ NoCall
    /\ LenOff /\ WireOff /\ TimerOff
    /\ pubLens \in SizeLens

SizeNext == CallPublish \/ PubHeader \/ PubPid \/ PubMsg \/ AppContinue

SizeSpec == SizeInit /\ [][SizeNext]_vars

\* ---------------------------------------------------------- keepalive timer
\* MQTT_Pub.py: the periodic timer runs timer_callback between any two steps
\* of the main call path, which publishes with qos PubQos through the
\* robust client.
\* variant: the threshold passed before the reset
AtThresholdAbove(c) == c > KeepaliveTicks

\* timer_callback, line 137: if timer_count >= 30
AtThreshold(c) == c >= KeepaliveTicks

\* the main call path has written the header of a PUBLISH and not yet its payload
MidPacket == pc \in {"pub_pid", "pub_msg"}

\* mqtt_connect() has returned and the timer has been started (lines 154-167)
TickInit ==
    /\ robust = TRUE /\ pid = 0 /\ sock = 1 /\ link = "up" /\ blocking = TRUE
    /\ rx = <<>> /\ orphaned = FALSE /\ cb = FALSE /\ sent = <<>>
    /\ NoCall
    /\ LenOff /\ WireOff /\ SizeOff /\ TimerOff

\* timer_callback, lines 131-141; client.ping() writes PINGREQ on self.sock
\* when it can, and what it raises ends the callback only
TimerTick ==
    /\ ticks < MaxTicks
    /\ ticks' = ticks + 1
    /\ IF AtThreshold(timer_count + 1)
       THEN /\ timer_count' = 0
            /\ pings' = pings + 1
            /\ pingMid' = (pingMid \/ (CanWrite /\ MidPacket))
       ELSE /\ timer_count' = timer_count + 1
            /\ UNCHANGED <<pings, pingMid>>
    /\ UNCHANGED <<clientVars, lenVars, wireVars, pubLens>>

\* main loop, line 175: client.publish(pubtopic, topic_msg, qos = pubqos)
AppPublish ==
    /\ Call("publish", PubQos)
    /\ Enter("pub_start")

TickNext ==
    \/ TimerTick \/ AppPublish \/ PubHeader \/ PubMsg \/ AppContinue
    \/ LinkDown \/ ConnectOpen \/ ConnectOpenFail \/ ConnectSend
    \/ ServerConnack \/ ConnectAck \/ ConnectAckLost \/ RcSleep

TickSpec == TickInit /\ [][TickNext]_vars

\* ------------------------------------------------------------ specification
Next ==
    \/ LinkDown \/ ServerConnack \/ ServerSend \/ AppContinue
    \/ CallConnect \/ CallReconnect
    \/ ConnectOpen \/ ConnectOpenFail \/ ConnectSend \/ ConnectAck \/ ConnectAckLost
    \/ RcSleep
    \/ CallPublish \/ PubHeader \/ PubPid \/ PubMsg \/ PubLoop \/ PubAck \/ PubAckShort
    \/ CallWaitMsg \/ WmReadNone \/ WmReadLost \/ WmReadPingresp \/ WmReadOther
    \/ WmReadPublish \/ WmReadShort \/ WmAck
    \/ CallSubscribe \/ SubSend \/ SubLoop \/ SubAck \/ SubAckShort
    \/ CallCheckMsg \/ CkLoop
    \/ CallPing \/ PingWrite \/ CallDisconnect \/ DiscWrite \/ SetCallback

Spec == Init /\ [][Next]_vars

\* ------------------------------------------------------------------- claims
\* the identifier most recently written on the wire
SentId == sent[Len(sent)]

\* publish has read the header byte of a PUBACK and its three remaining bytes are there
AtPuback ==
    /\ op = "publish" /\ arg = 1
    /\ pc = "pub_chk" /\ wmOp = PUBACK
    /\ Len(rx) >= 3 /\ rx[1] = 2

AckId == rx[2] * 256 + rx[3]

\* C1: a publish with qos 1 returns normally only on the step that reads a
\* PUBACK carrying the identifier written in its PUBLISH; a PUBACK with any
\* other identifier is consumed (its three remaining bytes leave the stream)
\* and publish goes back to reading the next packet.
C1_PubackMatch ==
    [][ /\ (op = "publish" /\ arg = 1 /\ pc # "done" /\ pc' = "done" /\ result' = "ok")
            => (AtPuback /\ sent # <<>> /\ AckId = SentId /\ rx' = Drop(rx, 3))
        /\ (AtPuback /\ sent # <<>> /\ AckId # SentId /\ pc' # pc)
            => (pc' = "wm_read" /\ rx' = Drop(rx, 3) /\ rcvPid' = AckId)
      ]_vars

\* a PUBACK for another identifier has been read and publish is waiting again
C1_Witness ==
    /\ op = "publish" /\ arg = 1 /\ pc = "wm_read"
    /\ sent # <<>> /\ rcvPid # None /\ rcvPid # SentId
    /\ pubHere /\ link = "up"

\* C2: on the base client, with the connection up from the start of the call
\* to its end, a publish or subscribe with qos 2 ends with an error and has
\* written no byte on the transport.
C2_Qos2NoByte ==
    (~robust /\ op \in {"publish", "subscribe"} /\ arg = 2 /\ pc = "done" /\ link = "up")
        => (result # "ok" /\ ~txn)

\* C3: every identifier put on the wire is in 1..65535, and the one issued
\* after 65535 is 1.
C3_IdRange ==
    \A k \in 1..Len(sent) :
        /\ sent[k] \in 1..(PidModulus - 1)
        /\ (k > 1 /\ sent[k - 1] = PidModulus - 1) => sent[k] = 1

\* C4: no identifier is written twice: every PUBLISH with qos 1 and every
\* SUBSCRIBE, the repeated attempts of the robust client after a reconnect
\* included, carries an identifier none of the earlier packets carried.
C4_FreshId ==
    \A j, k \in 1..Len(sent) : j < k => sent[j] # sent[k]

\* the robust publish wrote an identifier, reconnected, and wrote another one
C4_Witness ==
    /\ robust /\ op = "publish" /\ retried
    /\ idOut /\ pubHere /\ Len(sent) >= 2

\* positions inside a base publish or wait_msg
BaseOpPcs == {"pub_start", "pub_pid", "pub_msg", "pub_chk", "wm_read", "wm_ack"}

\* C5: publish and wait_msg of the robust client never end with OSError;
\* once a transport error was caught the base operation is tried again only
\* after a connect with clean_session False has succeeded, and the call
\* returns normally only with no reconnect left open.
C5_NoOSError ==
    (robust /\ op \in {"publish", "wait_msg"}) =>
        /\ pc = "done" => result # "OSError"
        /\ pc \in BaseOpPcs => ~needConn
        /\ inRc => ~clean
        /\ (pc = "done" /\ result = "ok") => ~needConn

\* a robust publish returned normally after a transport error and a reconnect
C5_Witness ==
    /\ robust /\ op = "publish" /\ pc = "done" /\ result = "ok"
    /\ retried /\ lastExc = "OSError"

\* C6: while a publish with qos 1 of the robust client waits for its PUBACK,
\* the PUBLISH it waits for was written on the connection it is reading: after
\* a reconnect the PUBLISH has been sent again before the wait goes on.
C6_ResentAfterReconnect ==
    (robust /\ op = "publish" /\ arg = 1 /\ pc \in {"wm_read", "wm_ack", "pub_chk"})
        => pubHere

C7_WitnessOnce ==
    /\ robust /\ op = "wait_msg" /\ retried /\ ~inRc /\ pc = "wm_read"
    /\ rcTries = 1 /\ i = 0

C9_CheckMsgNeverWaits ==
    (robust /\ op = "check_msg") => pc # "rc_sleep"

\* C10: in the robust client an MQTTException, AssertionError or other
\* non-transport error ends the call with that error on the step that raises
\* it: no connect attempt and no retry follows.
C10_ProtoErrorsPropagate ==
    (robust /\ lastExc \in ProtoErrors) => (pc = "done" /\ result = lastExc /\ ~inRc)

\* the server refused the CONNECT sent by reconnect() inside a wrapped operation
C10_Witness ==
    /\ robust /\ op \in {"publish", "wait_msg", "check_msg"}
    /\ pc = "done" /\ result = "MQTTException" /\ needConn

\* C11: when disconnect() has ended, normally or with an error, the socket
\* has been closed.
C11_DisconnectCloses ==
    (op = "disconnect" /\ pc = "done") => link = "none"

\* C12: connect reads a four-byte CONNACK: with header 0x20, 0x02 and return
\* code 0 it returns bit 0 of the third byte; with another return code it
\* fails with MQTTException and the connection is closed again; with another
\* header it fails with a protocol error.
C12_Connack ==
    [][ (op = "connect" /\ pc = "cn_ack" /\ Len(rx) >= 4 /\ pc' # pc) =>
            IF rx[1] = CONNACK /\ rx[2] = 2
            THEN IF rx[4] = 0
                 THEN pc' = "done" /\ result' = "ok" /\ retval' = rx[3] % 2
                 ELSE pc' = "done" /\ result' = "MQTTException" /\ link' = "none"
            ELSE pc' = "done" /\ result' = "AssertionError"
      ]_vars

\* C13: a socket is opened only by a connect() or reconnect() the application
\* called, and only while self.sock holds no connection.
C13_OpenOnlyByConnect ==
    [][ (pc = "cn_open" /\ pc' # pc) =>
            (op \in {"connect", "reconnect"} /\ link = "none") ]_vars

\* C14: when a call of the base client has ended with a transport error the
\* client holds no socket any more: self.sock is None or closed.
C14_NoHandleAfterFailure ==
    (~robust /\ pc = "done" /\ result = "OSError"
        /\ op \in {"publish", "subscribe", "wait_msg", "check_msg", "ping"})
        => (sock = 0 \/ link = "none")

\* C15: no socket that was connected is left open when self.sock is given a
\* new one.
C15_OneOpenTransport == ~orphaned

\* C16: when a wait_msg frame that read a PUBLISH returns, self.cb has been
\* called exactly once, with the topic and payload of the packet, and the
\* frame has written one PUBACK with the packet's identifier if the PUBLISH
\* had QoS 1 and none if it had QoS 0; a PUBACK is written only after the
\* callback has returned.
C16_InboundPublish ==
    [][ /\ ( /\ pc = "wm_ack"
             /\ \/ pc' \in {"pub_chk", "sub_chk"}
                \/ pc' = "done" /\ result' = "ok" )
            => /\ wmOp' \in {PUBLISH, PUBLISH + 2}
               /\ cbLog' = <<<<InTopic, InMsg>>>>
               /\ ackLog' = IF wmOp' = PUBLISH + 2 THEN <<InPid>> ELSE <<>>
        /\ (ackLog' # ackLog /\ ackLog' # <<>>)
            => (pc = "wm_ack" /\ Len(cbLog) = 1 /\ cbLog' = cbLog /\ Len(ackLog') = 1)
      ]_vars

\* wait_msg returned a QoS-1 PUBLISH: one callback, then one PUBACK
C16_Witness ==
    /\ op = "wait_msg" /\ pc = "done" /\ result = "ok" /\ retval = PUBLISH + 2
    /\ cbLog = <<<<InTopic, InMsg>>>> /\ ackLog = <<InPid>>

\* C17: a header read that finds the connection ended makes wait_msg raise
\* OSError; a header read that returns None (nothing pending on a non-blocking
\* socket) makes wait_msg return None with nothing more read, nothing
\* written and self.cb not called.
C17_HeaderRead ==
    [][ /\ (pc = "wm_read" /\ sock # 0 /\ rx = <<>> /\ link # "up" /\ pc' # pc)
            => /\ lastExc' = "OSError"
               /\ ~robust => (pc' = "done" /\ result' = "OSError")
               /\ robust => (pc' = "cn_open" /\ inRc')
               /\ cbLog' = <<>> /\ ackLog' = <<>> /\ txn' = txn
        /\ (pc = "wm_read" /\ sock # 0 /\ rx = <<>> /\ link = "up" /\ ~blocking /\ pc' # pc)
            => /\ wmOp' = None
               /\ \/ pc' \in {"pub_chk", "sub_chk"}
                  \/ pc' = "done" /\ result' = "ok" /\ retval' = None
               /\ rx' = rx /\ txn' = txn /\ sent' = sent
               /\ cbLog' = <<>> /\ ackLog' = <<>>
      ]_vars

\* wait_msg of the base client met the end of the connection
C17_Witness ==
    /\ ~robust /\ op = "wait_msg" /\ pc = "done" /\ result = "OSError"
    /\ link = "down" /\ ~txn /\ cbLog = <<>>

\* check_msg found nothing pending and returned None
C17_WitnessNone ==
    /\ op = "check_msg" /\ pc = "done" /\ result = "ok" /\ retval = None
    /\ ckReads = 1 /\ ~blocking /\ link = "up" /\ ~txn /\ cbLog = <<>>

\* C18: subscribe with no callback set ends with AssertionError: nothing is
\* written and self.pid stays as it was.
C18_SubscribeNeedsCallback ==
    [][ (pc = "sub_start" /\ ~cb /\ pc' # pc)
            => /\ pc' = "done" /\ result' = "AssertionError"
               /\ pid' = pid /\ sent' = sent /\ txn' = txn /\ ~txn
               /\ link' = link
      ]_vars

\* subscribe on a connected client without callback has failed
C18_Witness ==
    /\ op = "subscribe" /\ pc = "done" /\ result = "AssertionError"
    /\ ~cb /\ link = "up" /\ ~txn /\ sent = <<>>

\* C19: a SUBACK whose identifier is not the one of the SUBSCRIBE sent does
\* not end subscribe, which goes back to reading; the SUBACK with that
\* identifier ends it, with MQTTException when the granted QoS is 0x80 and
\* normally otherwise.
C19_SubackMatch ==
    [][ (op = "subscribe" /\ pc = "sub_chk" /\ wmOp = SUBACK /\ Len(rx) >= 4
            /\ sent # <<>> /\ pc' # pc)
            => IF rx[2] * 256 + rx[3] # SentId
               THEN pc' = "wm_read"
               ELSE pc' = "done" /\ result' = (IF rx[4] = 128 THEN "MQTTException" ELSE "ok")
      ]_vars

\* C20: what _recv_len decodes from the length bytes publish writes for a
\* size below 2097152 is that size; the encoding has at most three bytes,
\* and a byte has its top bit set exactly when another byte follows.
C20_LenRoundTrip ==
    /\ lenPc \in {"dec", "end"} =>
          /\ Len(encPkt) \in 1..3
          /\ \A k \in 1..Len(encPkt) : (encPkt[k] >= 128) <=> (k < Len(encPkt))
          /\ \A k \in 1..Len(encPkt) : encPkt[k] \in 0..255
    /\ lenPc = "end" => decN = encSz

\* the largest size, three length bytes, has been encoded and decoded
C20_Witness ==
    /\ lenPc = "end" /\ encSz = 128 * 128 * 128 - 1
    /\ encPkt = <<255, 255, 127>> /\ decN = encSz

\* C23: self.pid changes only by one, and only on the step of a publish with
\* qos 1 or of a subscribe that writes the identifier; a publish with qos 0
\* ends on the write of its payload, with nothing read and self.pid as it was.
C23_PidFrame ==
    [][ /\ (pid' # pid) =>
              /\ pid' = pid + 1
              /\ \/ op = "publish" /\ arg = 1 /\ pc = "pub_pid"
                 \/ op = "subscribe" /\ pc = "sub_start"
        /\ (op = "publish" /\ arg = 0 /\ pc = "pub_msg" /\ CanWrite /\ pc' # pc)
              => (pc' = "done" /\ result' = "ok" /\ rx' = rx /\ pid' = pid)
      ]_vars

\* C26: when wait_msg, publish or subscribe has returned normally, no byte of
\* a packet whose header byte was read is left in the stream (the server of
\* the model sends a packet only into an empty stream, so the stream is then
\* empty).
C26_StreamAligned ==
    (op \in {"wait_msg", "publish", "subscribe"} /\ pc = "done" /\ result = "ok")
        => rx = <<>>

\* C29: a transport error inside a subscribe of the robust client ends the
\* call with that error; subscribe never reads on a connection on which its
\* SUBSCRIBE was not written.
C29_SubscribeRaises ==
    /\ (robust /\ op = "subscribe" /\ lastExc = "OSError")
          => (pc = "done" /\ result = "OSError")
    /\ (robust /\ op = "subscribe" /\ pc \in {"wm_read", "wm_ack", "sub_chk"})
          => pubHere

\* C30: every header read of a check_msg of the robust client is made on a
\* non-blocking socket, and every header read of a wait_msg call on a
\* blocking one, whatever check_msg calls came before.
C30_CheckMsgFrame ==
    /\ (robust /\ op = "check_msg" /\ pc = "wm_read") => ~blocking
    /\ (robust /\ op = "wait_msg" /\ pc = "wm_read") => blocking

\* the remaining length a reader finds after the header byte of the bytes written
WireRemaining == RecvLen(wire, 2, 0, 0)[1]

\* C21: wait_msg reading the bytes publish wrote (qos 0 or 1, identifier in
\* 1..65535) finds the topic, the payload, the retain flag and the qos it was
\* called with and, for qos 1, the identifier; it takes every byte written,
\* and the payload is the remaining length less 2, less the topic length,
\* less 2 more exactly when qos > 0.
C21_PublishRoundTrip ==
    (wirePc = "end" /\ wireIn.op = "publish") =>
        /\ wireOut.body.used = Len(wire) - 1
        /\ wireOut.body.topic = wireIn.topic
        /\ wireOut.body.msg = wireIn.msg
        /\ HighNibble(wireOut.op) = PUBLISH
        /\ QosBits(wireOut.op) = 2 * wireIn.qos
        /\ (wireOut.op % 2 = 1) <=> wireIn.retain
        /\ wireOut.body.id = (IF wireIn.qos = 1 THEN pid ELSE None)
        /\ wireIn.qos = 1 => pid \in 1..(PidModulus - 1)
        /\ Len(wireOut.body.msg) =
              WireRemaining - 2 - Len(wireIn.topic) - (IF wireIn.qos > 0 THEN 2 ELSE 0)

\* a retained QoS-1 PUBLISH with identifier 65535 and a three-byte remaining
\* length has been written and read back
C21_Witness ==
    /\ wirePc = "end" /\ wireIn.op = "publish" /\ wireIn.qos = 1 /\ wireIn.retain
    /\ Len(wireIn.topic) = 1 /\ Len(wireIn.msg) = LongStr
    /\ wire[2] >= 128 /\ wire[3] >= 128 /\ wireOut.body.id = PidModulus - 1
    /\ wireOut.body.msg = wireIn.msg

\* C24: a publish whose remaining length (2 + topic length + payload length,
\* + 2 when qos > 0) is 2097152 or more ends with AssertionError on its first
\* step: nothing is written, self.pid stays as it was and the robust client
\* makes no reconnect; a smaller one is not refused.
C24_SizeLimit ==
    [][ /\ ( /\ pc = "pub_start" /\ pc' # pc
             /\ 2 + pubLens[1] + pubLens[2] + (IF arg > 0 THEN 2 ELSE 0) >= SizeLimit )
            => /\ pc' = "done" /\ result' = "AssertionError" /\ ~inRc'
               /\ pid' = pid /\ txn' = txn /\ sent' = sent
        /\ ( /\ pc = "pub_start" /\ pc' # pc /\ CanWrite
             /\ 2 + pubLens[1] + pubLens[2] + (IF arg > 0 THEN 2 ELSE 0) < SizeLimit )
            => (pc' \in {"pub_pid", "pub_msg"} /\ txn')
      ]_vars

\* the robust client refused a qos-1 publish of exactly 2097152 bytes
C24_Witness ==
    /\ robust /\ op = "publish" /\ arg = 1 /\ pc = "done" /\ result = "AssertionError"
    /\ 2 + pubLens[1] + pubLens[2] + 2 = SizeLimit
    /\ ~txn /\ pid = 0 /\ ~retried

\* C25: _recv_len reads at most four bytes: it never reads a fifth one after
\* four bytes that all have the continuation bit set.
C25_FourLengthBytes ==
    (wirePc = "end" /\ wireIn.op = "recv_len") => wireOut.read <= 4

\* C28: the remaining-length field of the SUBSCRIBE written by subscribe
\* decodes to 2 + 2 + topic length + 1, which is the number of bytes that
\* follow the field.
C28_SubscribeLength ==
    (wirePc = "end" /\ wireIn.op = "subscribe") =>
        /\ wireOut.n = 2 + 2 + Len(wireIn.topic) + 1
        /\ Len(wire) = 1 + wireOut.read + wireOut.n

\* C22: after every tick timer_count is in 0..29: it is the number of ticks
\* modulo 30, and client.ping() has been called once for every 30 ticks.
C22_KeepaliveTick ==
    /\ timer_count \in 0..29
    /\ timer_count = ticks % 30
    /\ pings = ticks \div 30

\* sixty ticks: the second ping has just been requested
C22_Witness ==
    ticks = 60 /\ pings = 2 /\ timer_count = 0

\* C27: no PINGREQ of timer_callback is written between the header and the
\* payload of a PUBLISH the main call path is writing.
C27_WholePackets == ~pingMid

====
